---- MODULE Spec2Model ----
(***************************************************************************)
(* A model of app.py of house-price-map: the Google Drive loader           *)
(* (load_data_from_drive), the field normaliser (parse_roc_date,           *)
(* compute_building_age, categorize_property, clean_real_price_data), the  *)
(* address resolver (geocode_address), the geo filter                      *)
(* (filter_by_distance_and_condition) and the page script (main).          *)
(*                                                                         *)
(* Each component has its own specification over the shared variables:     *)
(*   Spec        load_data_from_drive (folder scan, then download + merge) *)
(*   SpecDate    parse_roc_date applied to one cell value                  *)
(*   SpecClean   clean_real_price_data run twice on one raw table          *)
(*   SpecFilter  filter_by_distance_and_condition on one clean table       *)
(*   SpecMain    main: sidebar, geocode_address, load, clean, filter       *)
(***************************************************************************)
EXTENDS Integers, Sequences, FiniteSets, TLC

VARIABLES
    \* ---- load_data_from_drive ----
    children,           \* the remote store: folder id -> the items a listing returns, in order
    lines,              \* the remote store: small document id -> number of text lines it holds
    unfetchable,        \* the remote store: documents whose download raises
    folders_to_search,  \* the stack of folder ids still to list
    all_csv_files,      \* the items collected so far
    popCount,           \* history: folder id -> number of times it was popped and listed
    listedOk,           \* history: folders whose listing returned
    folderWarned,       \* history: folders whose listing raised (st.warning, line 97)
    dpc,                \* position in load_data_from_drive
    fileIdx,            \* index of the next file of the merge loop
    df_list,            \* the tables parsed so far
    fileWarned,         \* history: documents that could not be read (st.warning, line 120)
    final_df,           \* the returned table
    \* ---- parse_roc_date ----
    cell,               \* the value of one cell of the transaction-date column
    parsed,             \* what parse_roc_date returned for it
    ppc,                \* "call" before the call, "done" after it
    \* ---- clean_real_price_data ----
    raw_df,             \* the raw table: [cols |-> column names in order, rows |-> rows]
    clock,              \* the wall-clock year, what datetime.now().year returns
    clean1,             \* the table returned by the first run
    clean2,             \* the table returned by the second run
    cpc,                \* number of runs made: "none", "once", "twice"
    \* ---- filter_by_distance_and_condition and the sidebar of main ----
    fdf,                \* the clean table handed to the filter
    center,             \* <<center_lat, center_lon>>, or <<>> for (None, None)
    radius_km,          \* the radius, in units of 100 m
    transaction_type,   \* the category asked for
    max_age,            \* {} for None, {n} for an upper limit of n years
    filtered,           \* the table the filter returned
    fpc,                \* "call" before the call, then "returned" or "raised"
    \* ---- main and geocode_address ----
    center_address,     \* the address typed in the sidebar
    geocodeCache,       \* st.cache_data of geocode_address: the results stored so far
    lookups,            \* history: the queries this run sent to the geocoding service
    stages,             \* history: the stages this run of main has executed
    report,             \* what this run of main showed for its outcome
    mpc                 \* position in main

driveVars == <<children, lines, unfetchable, folders_to_search, all_csv_files, popCount,
               listedOk, folderWarned, dpc, fileIdx, df_list, fileWarned, final_df>>

dateVars == <<cell, parsed, ppc>>

cleanVars == <<raw_df, clock, clean1, clean2, cpc>>

filterVars == <<fdf, filtered, fpc>>

sidebarVars == <<center, radius_km, transaction_type, max_age>>

mainVars == <<center_address, geocodeCache, lookups, stages, report, mpc>>

vars == <<driveVars, dateVars, cleanVars, filterVars, sidebarVars, mainVars>>

notDrive == <<dateVars, cleanVars, filterVars, sidebarVars, mainVars>>

notDate == <<driveVars, cleanVars, filterVars, sidebarVars, mainVars>>

notClean == <<driveVars, dateVars, filterVars, sidebarVars, mainVars>>

notFilter == <<driveVars, dateVars, cleanVars, mainVars>>

notMain == <<driveVars, dateVars, cleanVars, filterVars>>

\* ------------------------------------------------------------------ helpers

Min(a, b) == IF a < b THEN a ELSE b

Max(a, b) == IF a > b THEN a ELSE b

Range(s) == {s[i] : i \in DOMAIN s}

Front(s) == SubSeq(s, 1, Len(s) - 1)

Last(s) == s[Len(s)]

RECURSIVE Flatten(_)
\* pd.concat(df_list, ignore_index=True): the rows of the tables, in order
Flatten(ss) ==
    IF ss = <<>> THEN <<>>
    ELSE IF Len(ss) = 1 THEN ss[1]
    ELSE LET half == Len(ss) \div 2
         IN  Flatten(SubSeq(ss, 1, half)) \o Flatten(SubSeq(ss, half + 1, Len(ss)))

\* ------------------------------------------------------------------ the remote store

\* how many times one folder may be listed before the model stops following the scan
MaxLists == 2

\* how many children beyond one page the widest folder of the model holds
WideExtra == 1

root_folder_id == 0

SubFolders == {1, 2}

Folders == {root_folder_id} \cup SubFolders

SmallDocs == {11, 12, 13}

\* pageSize of the files().list request
PageSize == 1000

FolderMime == "application/vnd.google-apps.folder"

\* the order in which a listing returns the nodes of a small store
NodeOrder == <<11, 1, 12, 2, 13>>

\* names are sequences of fragments, so that '.csv' in name is a containment test
Item(id) ==
    CASE id = 1  -> [id |-> id, name |-> <<"2023">>, mimeType |-> FolderMime]
      [] id = 2  -> [id |-> id, name |-> <<"old", ".csv">>, mimeType |-> FolderMime]
      [] id = 11 -> [id |-> id, name |-> <<"a", ".csv">>, mimeType |-> "application/octet-stream"]
      [] id = 12 -> [id |-> id, name |-> <<"b">>, mimeType |-> "text/csv"]
      [] id = 13 -> [id |-> id, name |-> <<"notes", ".txt">>, mimeType |-> "text/plain"]
      [] OTHER   -> [id |-> id, name |-> <<"w", ".csv">>, mimeType |-> "text/csv"]

IsFolderItem(item) == item.mimeType = FolderMime

IsCsvItem(item) ==
    /\ ~IsFolderItem(item)
    /\ (\E i \in DOMAIN item.name : item.name[i] = ".csv") \/ item.mimeType = "text/csv"

\* files().list(q=..., pageSize=1000).execute().get('files', []): the first page only
ListPage(folder) == SubSeq(children[folder], 1, Min(PageSize, Len(children[folder])))

FolderIds(items) == [i \in DOMAIN items |-> items[i].id]

\* number of text lines of a document
LinesOf(id) == IF id \in DOMAIN lines THEN lines[id] ELSE 3

\* pd.read_csv(content, header=1): line 1 is skipped, line 2 names the columns, the
\* rest are rows; a file with fewer than two lines raises
ReadCsvRaises(id) == LinesOf(id) < 2

ReadCsv(id) == [i \in 1..(LinesOf(id) - 2) |-> <<id, i>>]

SmallStores ==
    { [f \in Folders |->
          LET kids == SelectSeq(NodeOrder, LAMBDA n : f \in par[n])
          IN  [i \in DOMAIN kids |-> Item(kids[i])]] :
      par \in { p \in [SmallDocs \cup SubFolders -> SUBSET Folders] :
                  /\ Cardinality(p[11]) = 1
                  /\ Cardinality(p[12]) = 1
                  /\ p[13] = {root_folder_id}
                  /\ 2 \notin p[2] } }

WideStores ==
    { [f \in Folders |->
          IF f = root_folder_id THEN [i \in 1..n |-> Item(100 + i)] ELSE <<>>] :
      n \in PageSize..(PageSize + WideExtra) }

DriveInit ==
    /\ children \in SmallStores \cup WideStores
    /\ lines \in [{11} -> {1, 3}]
    /\ unfetchable \in SUBSET {12}
    /\ folders_to_search = <<root_folder_id>>
    /\ all_csv_files = <<>>
    /\ popCount = [f \in Folders |-> 0]
    /\ listedOk = {}
    /\ folderWarned = {}
    /\ dpc = "scan"
    /\ fileIdx = 0
    /\ df_list = <<>>
    /\ fileWarned = <<>>
    /\ final_df = <<>>

\* ------------------------------------------------------------------ load_data_from_drive

\* one pass of the while loop whose listing returns (lines 72-94)
ListFolder ==
    /\ dpc = "scan"
    /\ folders_to_search # <<>>
    /\ LET current_folder_id == Last(folders_to_search)
           items == ListPage(current_folder_id)
       IN  /\ popCount[current_folder_id] < MaxLists
           /\ folders_to_search' =
                  Front(folders_to_search) \o FolderIds(SelectSeq(items, IsFolderItem))
           /\ all_csv_files' = all_csv_files \o SelectSeq(items, IsCsvItem)
           /\ popCount' = [popCount EXCEPT ![current_folder_id] = @ + 1]
           /\ listedOk' = listedOk \cup {current_folder_id}
    /\ UNCHANGED <<children, lines, unfetchable, folderWarned, dpc, fileIdx, df_list,
                   fileWarned, final_df>>
    /\ UNCHANGED notDrive

\* one pass of the while loop whose listing raises (lines 72-82, 96-98)
ListFolderRaises ==
    /\ dpc = "scan"
    /\ folders_to_search # <<>>
    /\ LET current_folder_id == Last(folders_to_search)
       IN  /\ popCount[current_folder_id] < MaxLists
           /\ folders_to_search' = Front(folders_to_search)
           /\ popCount' = [popCount EXCEPT ![current_folder_id] = @ + 1]
           /\ folderWarned' = folderWarned \cup {current_folder_id}
    /\ UNCHANGED <<children, lines, unfetchable, all_csv_files, listedOk, dpc, fileIdx,
                   df_list, fileWarned, final_df>>
    /\ UNCHANGED notDrive

\* the loop has ended and nothing was found (lines 100-102)
ReturnNoFiles ==
    /\ dpc = "scan"
    /\ folders_to_search = <<>>
    /\ all_csv_files = <<>>
    /\ final_df' = <<>>
    /\ dpc' = "returned"
    /\ UNCHANGED <<children, lines, unfetchable, folders_to_search, all_csv_files, popCount,
                   listedOk, folderWarned, fileIdx, df_list, fileWarned>>
    /\ UNCHANGED notDrive

\* the loop has ended with files to merge (lines 100, 104-107)
StartMerge ==
    /\ dpc = "scan"
    /\ folders_to_search = <<>>
    /\ all_csv_files # <<>>
    /\ df_list' = <<>>
    /\ fileIdx' = 1
    /\ dpc' = "merge"
    /\ UNCHANGED <<children, lines, unfetchable, folders_to_search, all_csv_files, popCount,
                   listedOk, folderWarned, fileWarned, final_df>>
    /\ UNCHANGED notDrive

\* one pass of the for loop that downloads and parses (lines 108-117)
ReadFile ==
    /\ dpc = "merge"
    /\ fileIdx <= Len(all_csv_files)
    /\ LET file == all_csv_files[fileIdx]
       IN  /\ file.id \notin unfetchable
           /\ ~ReadCsvRaises(file.id)
           /\ df_list' = Append(df_list, ReadCsv(file.id))
    /\ fileIdx' = fileIdx + 1
    /\ UNCHANGED <<children, lines, unfetchable, folders_to_search, all_csv_files, popCount,
                   listedOk, folderWarned, dpc, fileWarned, final_df>>
    /\ UNCHANGED notDrive

\* ReadFileRaises with the exception ending the for loop instead of one pass of it
ReadFileRaises_AbortsLoop ==
    /\ dpc = "merge"
    /\ fileIdx <= Len(all_csv_files)
    /\ LET file == all_csv_files[fileIdx]
       IN  /\ file.id \in unfetchable \/ ReadCsvRaises(file.id)
           /\ fileWarned' = Append(fileWarned, file.id)
    /\ fileIdx' = Len(all_csv_files) + 1
    /\ UNCHANGED <<children, lines, unfetchable, folders_to_search, all_csv_files, popCount,
                   listedOk, folderWarned, dpc, df_list, final_df>>
    /\ UNCHANGED notDrive

\* one pass of the for loop whose download or parse raises (lines 108-116, 119-120)
ReadFileRaises ==
    /\ dpc = "merge"
    /\ fileIdx <= Len(all_csv_files)
    /\ LET file == all_csv_files[fileIdx]
       IN  /\ file.id \in unfetchable \/ ReadCsvRaises(file.id)
           /\ fileWarned' = Append(fileWarned, file.id)
    /\ fileIdx' = fileIdx + 1
    /\ UNCHANGED <<children, lines, unfetchable, folders_to_search, all_csv_files, popCount,
                   listedOk, folderWarned, dpc, df_list, final_df>>
    /\ UNCHANGED notDrive

\* the for loop has ended (lines 122-126)
ConcatAndReturn ==
    /\ dpc = "merge"
    /\ fileIdx > Len(all_csv_files)
    /\ final_df' = IF df_list # <<>> THEN Flatten(df_list) ELSE <<>>
    /\ dpc' = "returned"
    /\ UNCHANGED <<children, lines, unfetchable, folders_to_search, all_csv_files, popCount,
                   listedOk, folderWarned, fileIdx, df_list, fileWarned>>
    /\ UNCHANGED notDrive


\* ------------------------------------------------------------------ Python values

\* a cell of a table: NaN, a str, an int, or a float with an integral value
NaN == [t |-> "nan", s |-> <<>>, v |-> 0]

StrCell(chars) == [t |-> "str", s |-> chars, v |-> 0]

IntCell(n) == [t |-> "int", s |-> <<>>, v |-> n]

FloatCell(n) == [t |-> "float", s |-> <<>>, v |-> n]

\* pd.isna(value)
IsNa(value) == value.t = "nan"

DigitChars == <<"0", "1", "2", "3", "4", "5", "6", "7", "8", "9">>

IsDigit(c) == \E d \in DOMAIN DigitChars : DigitChars[d] = c

DigitVal(c) == (CHOOSE d \in DOMAIN DigitChars : DigitChars[d] = c) - 1

RECURSIVE DecStr(_)
\* the decimal digits of an integer
DecStr(n) ==
    IF n < 0 THEN <<"-">> \o DecStr(0 - n)
    ELSE IF n < 10 THEN <<DigitChars[n + 1]>>
    ELSE DecStr(n \div 10) \o <<DigitChars[(n % 10) + 1]>>

\* str(value)
PyStr(value) ==
    CASE value.t = "str"   -> value.s
      [] value.t = "int"   -> DecStr(value.v)
      [] value.t = "float" -> DecStr(value.v) \o <<".", "0">>
      [] OTHER             -> <<"n", "a", "n">>

RECURSIVE PyLStrip(_)
PyLStrip(s) == IF s # <<>> /\ Head(s) = " " THEN PyLStrip(Tail(s)) ELSE s

RECURSIVE PyRStrip(_)
PyRStrip(s) == IF s # <<>> /\ Last(s) = " " THEN PyRStrip(Front(s)) ELSE s

\* s.strip()
PyStrip(s) == PyRStrip(PyLStrip(s))

\* s[a:b]
PySlice(s, a, b) == SubSeq(s, a + 1, Min(b, Len(s)))

\* sub in s
Contains(s, sub) == \E i \in 1..(Len(s) - Len(sub) + 1) : SubSeq(s, i, i + Len(sub) - 1) = sub

RECURSIVE DigitsValue(_)
DigitsValue(s) ==
    IF s = <<>> THEN 0
    ELSE IF Last(s) = "_" THEN DigitsValue(Front(s))
    ELSE 10 * DigitsValue(Front(s)) + DigitVal(Last(s))

\* int(s): surrounding whitespace, one sign, decimal digits with single underscores
\* between them; ok = FALSE stands for ValueError
PyInt(s) ==
    LET t == PyStrip(s)
        signed == t # <<>> /\ Head(t) \in {"+", "-"}
        body == IF signed THEN Tail(t) ELSE t
        wellFormed ==
            /\ body # <<>>
            /\ \A i \in DOMAIN body : IsDigit(body[i]) \/ body[i] = "_"
            /\ IsDigit(Head(body))
            /\ IsDigit(Last(body))
            /\ \A i \in 1..(Len(body) - 1) : ~(body[i] = "_" /\ body[i + 1] = "_")
    IN  IF ~wellFormed THEN [ok |-> FALSE, v |-> 0]
        ELSE [ok |-> TRUE,
              v |-> IF signed /\ Head(t) = "-" THEN 0 - DigitsValue(body)
                    ELSE DigitsValue(body)]

\* pd.to_numeric(column, errors="coerce") on one cell
ToNumeric(value) ==
    CASE value.t = "int"   -> value
      [] value.t = "float" -> value
      [] value.t = "str"   -> IF PyInt(value.s).ok THEN IntCell(PyInt(value.s).v) ELSE NaN
      [] OTHER             -> NaN

\* ------------------------------------------------------------------ datetime

NaT == [nat |-> TRUE, year |-> 0, month |-> 0, day |-> 0]

IsLeap(year) == (year % 4 = 0 /\ year % 100 # 0) \/ year % 400 = 0

DaysInMonth(year, month) ==
    IF month = 2 THEN (IF IsLeap(year) THEN 29 ELSE 28)
    ELSE IF month \in {4, 6, 9, 11} THEN 30 ELSE 31

\* datetime(year, month, day) raises ValueError unless this holds
ValidDate(year, month, day) ==
    /\ year \in 1..9999
    /\ month \in 1..12
    /\ day \in 1..DaysInMonth(year, month)

\* ------------------------------------------------------------------ the field normaliser

parse_roc_date(value) ==
    IF IsNa(value) THEN NaT
    ELSE LET s == PyStrip(PyStr(value))
         IN  IF Len(s) \notin {6, 7} THEN NaT
             ELSE LET roc_year == PyInt(PySlice(s, 0, 3))
                      month == PyInt(PySlice(s, 3, 5))
                      day == PyInt(PySlice(s, 5, 7))
                      year == roc_year.v + 1911
                  IN  IF roc_year.ok /\ month.ok /\ day.ok /\ ValidDate(year, month.v, day.v)
                      THEN [nat |-> FALSE, year |-> year, month |-> month.v, day |-> day.v]
                      ELSE NaT

\* compute_building_age without the test that turns a negative age into 0
compute_building_age_Unclamped(roc_ym_value, now_year) ==
    IF IsNa(roc_ym_value) THEN 0
    ELSE LET s == PyStrip(PyStr(roc_ym_value))
         IN  IF Len(s) < 3 THEN 0
             ELSE LET roc_year == PyInt(PySlice(s, 0, 3))
                  IN  IF ~roc_year.ok THEN 0 ELSE now_year - (roc_year.v + 1911)

\* every call site passes now_year (line 222), so the None default is not modelled
compute_building_age(roc_ym_value, now_year) ==
    IF IsNa(roc_ym_value) THEN 0
    ELSE LET s == PyStrip(PyStr(roc_ym_value))
         IN  IF Len(s) < 3 THEN 0
             ELSE LET roc_year == PyInt(PySlice(s, 0, 3))
                      year == roc_year.v + 1911
                      age == now_year - year
                  IN  IF ~roc_year.ok THEN 0
                      ELSE IF age < 0 THEN 0
                      ELSE age

\* the characters of the source's markers, transliterated: fang, jian wu, tu di
FangWu == "fangwu"

TuDi == "tudi"

QiTa == "qita"

categorize_property(target_str) ==
    LET s == PyStr(target_str)
    IN  IF Contains(s, <<"fang">>) \/ Contains(s, <<"jian", "wu">>) THEN FangWu
        ELSE IF Contains(s, <<"tu", "di">>) THEN TuDi
        ELSE QiTa

\* column names, transliterated: date_roc is the transaction date column, unit_price_m2
\* the unit price per square metre, target the transaction subject, built_ym the
\* construction completion year-month, door_plate / location / address_zh the address
\* columns, total_price_yuan / total_price / price the total price columns
LatNames == {"lat_zh", "latitude", "Latitude", "LAT", "lat"}

LonNames == {"lon_zh", "longitude", "Longitude", "LON", "lon", "lng"}

AddrNames == <<"door_plate", "location", "address_zh">>

PriceNames == <<"total_price_yuan", "total_price", "price">>

\* for c in df.columns: if c in names: col = c  -- the last match, "" for None
LastMatch(cols, names) ==
    LET hits == {i \in DOMAIN cols : cols[i] \in names}
    IN  IF hits = {} THEN "" ELSE cols[CHOOSE i \in hits : \A j \in hits : j <= i]

\* for c in candidates: if c in df.columns: col = c; break  -- the first match, "" for None
FirstPresent(candidates, cols) ==
    LET hits == {i \in DOMAIN candidates : candidates[i] \in Range(cols)}
    IN  IF hits = {} THEN "" ELSE candidates[CHOOSE i \in hits : \A j \in hits : i <= j]

\* datetime.now().year
DatetimeNowYear == clock

\* the derived columns of one row, before rows are dropped (lines 197-267); the unit
\* price per ping is kept as unit * 33058, in units of 1e-8
clean_row(cols, row, now_year) ==
    LET has(c) == c \in Range(cols)
        unit == IF has("unit_price_m2") THEN ToNumeric(row["unit_price_m2"]) ELSE NaN
        category == IF has("target") THEN categorize_property(row["target"]) ELSE QiTa
        age0 == IF has("built_ym") THEN compute_building_age(row["built_ym"], now_year) ELSE 0
        lat_col == LastMatch(cols, LatNames)
        lon_col == LastMatch(cols, LonNames)
        addr_col == FirstPresent(AddrNames, cols)
        price_col == FirstPresent(PriceNames, cols)
    IN  [date     |-> IF has("date_roc") THEN parse_roc_date(row["date_roc"]) ELSE NaT,
         unit_wan_ping |-> IF IsNa(unit) THEN NaN ELSE IntCell(unit.v * 33058),
         category |-> category,
         age      |-> IF category = TuDi THEN 0 ELSE age0,
         lat      |-> IF lat_col # "" /\ lon_col # "" THEN ToNumeric(row[lat_col]) ELSE NaN,
         lon      |-> IF lat_col # "" /\ lon_col # "" THEN ToNumeric(row[lon_col]) ELSE NaN,
         address  |-> IF addr_col # "" THEN PyStr(row[addr_col]) ELSE <<>>,
         total    |-> IF price_col # "" THEN ToNumeric(row[price_col]) ELSE NaN]

KeepCleanRow(r) == ~r.date.nat /\ ~IsNa(r.unit_wan_ping)

clean_real_price_data(raw) ==
    LET now_year == DatetimeNowYear
        derived == [i \in DOMAIN raw.rows |-> clean_row(raw.cols, raw.rows[i], now_year)]
    IN  SelectSeq(derived, KeepCleanRow)

\* ------------------------------------------------------------------ inputs of the normaliser

\* the longest cell of the date column the model draws
MaxDateLen == 7

DateAlphabet == {"0", "1", "2", "9", " "}

DateCells ==
    {NaN, IntCell(1120520), IntCell(990520), FloatCell(1120520)}
        \cup {StrCell(s) : s \in UNION {[1..n -> DateAlphabet] : n \in 5..MaxDateLen}}

DateInit ==
    /\ cell \in DateCells
    /\ parsed = NaT
    /\ ppc = "call"

\* df["date"].apply(parse_roc_date) on one cell (line 199)
ParseCell ==
    /\ ppc = "call"
    /\ parsed' = parse_roc_date(cell)
    /\ ppc' = "done"
    /\ UNCHANGED cell
    /\ UNCHANGED notDate

\* the most rows a raw table of the model holds
MaxRows == 2

ClockYears == {2026, 2027}

ColumnLists ==
    { <<>>,
      <<"date_roc", "unit_price_m2", "target", "built_ym", "door_plate", "total_price_yuan">>,
      <<"date_roc", "unit_price_m2", "target", "built_ym", "lat", "lon", "address_zh">>,
      <<"date_roc", "unit_price_m2", "target", "latitude", "lng", "lat", "location", "price">>,
      <<"date_roc", "unit_price_m2", "built_ym", "lat", "total_price">>,
      <<"unit_price_m2", "target", "built_ym">> }

AllColumns ==
    {"date_roc", "unit_price_m2", "target", "built_ym", "door_plate", "location",
     "address_zh", "total_price_yuan", "total_price", "price", "lat", "lon", "latitude", "lng"}

\* a typical row of the published data, with coordinates added
BaseRow ==
    [c \in AllColumns |->
        CASE c = "date_roc"      -> IntCell(1120520)
          [] c = "unit_price_m2" -> IntCell(60000)
          [] c = "target"        -> StrCell(<<"fang", "di", "(", "tu", "di", "+", "jian", "wu", ")">>)
          [] c = "built_ym"      -> StrCell(<<"0", "8", "9", "0", "6", "1", "5">>)
          [] c \in {"lat", "latitude"} -> IntCell(14)
          [] c \in {"lon", "lng"} -> IntCell(0)
          [] c \in {"total_price_yuan", "total_price", "price"} -> IntCell(5000000)
          [] OTHER               -> StrCell(<<"addr">>)]

TargetCells ==
    { BaseRow["target"], StrCell(<<"tu", "di">>), StrCell(<<"che", "wei">>) }

BuiltCells ==
    { BaseRow["built_ym"],
      NaN,
      IntCell(890615),
      StrCell(<<"1", "2", "0", "0", "1", "0", "1">>),
      StrCell(<<"8", "9">>),
      StrCell(<<"n", "/", "a", "0">>) }

RawRows ==
    {[BaseRow EXCEPT !["target"] = tc, !["built_ym"] = bc] :
         tc \in TargetCells, bc \in BuiltCells}
    \cup {[BaseRow EXCEPT !["date_roc"] = StrCell(<<"1", "1", "2", "5", "2", "0">>)],
          [BaseRow EXCEPT !["unit_price_m2"] = StrCell(<<"-">>)],
          [BaseRow EXCEPT !["lat"] = NaN, !["latitude"] = StrCell(<<"x">>)]}

Restrict(row, cols) == [c \in Range(cols) |-> row[c]]

RawTables ==
    { [cols |-> cols, rows |-> rows] :
        cols \in ColumnLists \ {<<>>},
        rows \in UNION {[1..n -> RawRows] : n \in 0..MaxRows} }

CleanInit ==
    /\ \E t \in RawTables :
           raw_df = [cols |-> t.cols, rows |-> [i \in DOMAIN t.rows |-> Restrict(t.rows[i], t.cols)]]
       \/ raw_df = [cols |-> <<>>, rows |-> <<>>]
    /\ clock \in ClockYears
    /\ clean1 = <<>>
    /\ clean2 = <<>>
    /\ cpc = "none"

\* the wall clock passes into the next year
NewYear ==
    /\ clock + 1 \in ClockYears
    /\ clock' = clock + 1
    /\ UNCHANGED <<raw_df, clean1, clean2, cpc>>
    /\ UNCHANGED notClean

\* a first run of clean_real_price_data on the raw table
CleanOnce ==
    /\ cpc = "none"
    /\ clean1' = clean_real_price_data(raw_df)
    /\ cpc' = "once"
    /\ UNCHANGED <<raw_df, clock, clean2>>
    /\ UNCHANGED notClean

\* a second run on the same raw table
CleanAgain ==
    /\ cpc = "once"
    /\ clean2' = clean_real_price_data(raw_df)
    /\ cpc' = "twice"
    /\ UNCHANGED <<raw_df, clock, clean1>>
    /\ UNCHANGED notClean


\* ------------------------------------------------------------------ the geo filter

\* df.dropna(subset=["lat", "lon"]) keeps the rows for which this holds
HasCoordinates(r) == ~IsNa(r.lat) /\ ~IsNa(r.lon)

CeilSqrt(n) == CHOOSE d \in 0..n : d * d >= n /\ (d = 0 \/ (d - 1) * (d - 1) < n)

\* geodesic((center_lat, center_lon), (row["lat"], row["lon"])).km, in units of 100 m
\* rounded up: coordinates are offsets in units of 100 m north and east of a local
\* origin, and the radius is a whole number of units, so that d <= radius_km is exact
calc_distance(c, row) ==
    LET dlat == row.lat.v - c[1]
        dlon == row.lon.v - c[2]
    IN  CeilSqrt(dlat * dlat + dlon * dlon)

WithDistance(c, row) ==
    [f \in DOMAIN row \cup {"dist_km"} |-> IF f = "dist_km" THEN calc_distance(c, row) ELSE row[f]]

\* WithinRadius with the comparison turned round
WithinRadius_Inverted(r, radius) == r.dist_km >= radius

\* valid_geo["dist_km"] <= radius_km (line 325)
WithinRadius(r, radius) == r.dist_km <= radius

CategoryIs(r, type) == r.category = type

AgeAtMost(r, limit) == \A m \in limit : r.age <= m

\* the rows the filter keeps, before they are sorted (lines 311-332)
FilterRows(df, c, radius, type, max_house_age) ==
    LET valid_geo == SelectSeq(df, HasCoordinates)
        measured == [i \in DOMAIN valid_geo |-> WithDistance(c, valid_geo[i])]
        inRadius == SelectSeq(measured, LAMBDA r : WithinRadius(r, radius))
        ofType == SelectSeq(inRadius, LAMBDA r : CategoryIs(r, type))
    IN  IF type = FangWu /\ max_house_age # {}
        THEN SelectSeq(ofType, LAMBDA r : AgeAtMost(r, max_house_age))
        ELSE ofType

DateKey(d) == d.year * 10000 + d.month * 100 + d.day

\* sort_values("date", ascending=False): the orders a sort may give, ties in any order
SortedByDateDesc(rows) ==
    { [i \in DOMAIN rows |-> rows[p[i]]] :
        p \in { q \in [DOMAIN rows -> DOMAIN rows] :
                  /\ \A i, j \in DOMAIN rows : i # j => q[i] # q[j]
                  /\ \A i, j \in DOMAIN rows :
                         i < j => DateKey(rows[q[i]].date) >= DateKey(rows[q[j]].date) } }

\* ------------------------------------------------------------------ inputs of the filter

\* the most rows a clean table of the model holds
MaxRecords == 2

CleanRecord(date, category, age, lat, lon) ==
    [date |-> date, unit_wan_ping |-> IntCell(60000 * 33058), category |-> category,
     age |-> age, lat |-> lat, lon |-> lon, address |-> <<"addr">>, total |-> IntCell(5000000)]

Day1 == [nat |-> FALSE, year |-> 2023, month |-> 5, day |-> 20]

Day2 == [nat |-> FALSE, year |-> 2024, month |-> 1, day |-> 1]

CleanRecords ==
    { CleanRecord(Day1, FangWu, 25, IntCell(14), IntCell(0)),
      CleanRecord(Day1, FangWu, 25, IntCell(16), IntCell(0)),
      CleanRecord(Day2, FangWu, 35, IntCell(14), IntCell(0)),
      CleanRecord(Day2, FangWu, 25, NaN, NaN),
      CleanRecord(Day1, FangWu, 25, IntCell(14), NaN),
      CleanRecord(Day2, FangWu, 0, NaN, IntCell(0)),
      CleanRecord(Day2, TuDi, 0, IntCell(14), IntCell(0)),
      CleanRecord(Day1, TuDi, 0, IntCell(16), IntCell(0)),
      CleanRecord(Day1, TuDi, 0, NaN, NaN),
      CleanRecord(Day2, QiTa, 40, IntCell(12), IntCell(9)),
      CleanRecord(Day2, FangWu, 25, IntCell(12), IntCell(9)),
      CleanRecord(Day1, FangWu, 30, IntCell(0), IntCell(0)) }

CleanTables == UNION {[1..n -> CleanRecords] : n \in 0..MaxRecords}

Centers == {<<0, 0>>, <<-1, 0>>}

FilterInit ==
    /\ fdf \in CleanTables
    /\ center \in Centers
    /\ radius_km \in {5, 15}
    /\ transaction_type \in {FangWu, TuDi}
    /\ max_age \in {{}, {30}}
    /\ filtered = <<>>
    /\ fpc = "call"

\* the call returns (lines 311-335)
FilterReturns ==
    /\ fpc = "call"
    /\ filtered' \in
           SortedByDateDesc(FilterRows(fdf, center, radius_km, transaction_type, max_age))
    /\ fpc' = "returned"
    /\ UNCHANGED <<fdf, sidebarVars>>
    /\ UNCHANGED notFilter

\* with no row left in valid_geo, apply(calc_distance, axis=1) gives back an empty
\* table instead of a column, and pandas versions that refuse to assign a table to
\* the one column dist_km raise ValueError (lines 314-322)
FilterRaises ==
    /\ fpc = "call"
    /\ SelectSeq(fdf, HasCoordinates) = <<>>
    /\ fpc' = "raised"
    /\ UNCHANGED <<fdf, filtered, sidebarVars>>
    /\ UNCHANGED notFilter

\* ------------------------------------------------------------------ main and geocode_address

\* the names bound at module level when main runs (lines 2-12, 27-341)
ModuleNames ==
    {"io", "datetime", "np", "pd", "px", "st", "geodesic", "Nominatim", "service_account",
     "build", "GOOGLE_DRIVE_FOLDER_ID", "get_gcp_credentials", "load_data_from_drive",
     "parse_roc_date", "compute_building_age", "categorize_property",
     "clean_real_price_data", "geocode_address", "filter_by_distance_and_condition", "main"}

Addresses == {"Xihu Rd 427", "Xihu Rd", "nowhere"}

\* where the geocoding service puts an address it knows
LocationOf(address) == IF address = "Xihu Rd 427" THEN <<0, 0>> ELSE <<-1, 0>>

\* the sidebar widgets (lines 343-377): max_age is None unless the category is housing
SidebarInputs ==
    /\ center_address' \in Addresses
    /\ radius_km' \in {5, 15, 100}
    /\ transaction_type' \in {FangWu, TuDi}
    /\ max_age' \in IF transaction_type' = FangWu THEN {{0}, {30}, {40}} ELSE {{}}

MainInit ==
    /\ center_address \in Addresses
    /\ radius_km \in {5, 15, 100}
    /\ transaction_type \in {FangWu, TuDi}
    /\ max_age \in IF transaction_type = FangWu THEN {{0}, {30}, {40}} ELSE {{}}
    /\ center = <<>>
    /\ geocodeCache = [a \in {} |-> <<>>]
    /\ lookups = <<>>
    /\ stages = <<>>
    /\ report = "none"
    /\ mpc = "geocode"

\* geocode_address(center_address) answered from st.cache_data (lines 280, 381)
GeocodeCached ==
    /\ mpc = "geocode"
    /\ center_address \in DOMAIN geocodeCache
    /\ center' = geocodeCache[center_address]
    /\ stages' = Append(stages, "geocode")
    /\ mpc' = "resolved"
    /\ UNCHANGED <<center_address, geocodeCache, lookups, report, radius_km,
                   transaction_type, max_age>>
    /\ UNCHANGED notMain

\* the body of geocode_address runs: one query, which finds the address, finds
\* nothing or raises; the value returned is cached (lines 281-293, 381)
GeocodeLookup(outcome) ==
    /\ mpc = "geocode"
    /\ center_address \notin DOMAIN geocodeCache
    /\ lookups' = Append(lookups, center_address)
    /\ LET result == IF outcome = "found" THEN LocationOf(center_address) ELSE <<>>
       IN  /\ center' = result
           /\ geocodeCache' =
                  [a \in DOMAIN geocodeCache \cup {center_address} |->
                      IF a = center_address THEN result ELSE geocodeCache[a]]
    /\ stages' = Append(stages, "geocode")
    /\ mpc' = "resolved"
    /\ UNCHANGED <<center_address, report, radius_km, transaction_type, max_age>>
    /\ UNCHANGED notMain

\* geolocator.geocode returns a location (lines 288-290)
GeocodeFound == center_address # "nowhere" /\ GeocodeLookup("found")

\* geolocator.geocode returns None or raises: (None, None) either way (lines 291-293)
GeocodeFails == \E outcome \in {"none", "raises"} : GeocodeLookup(outcome)

\* center_lat is None: st.error and return (lines 383-385)
MainUnresolved ==
    /\ mpc = "resolved"
    /\ center = <<>>
    /\ report' = "address_error"
    /\ mpc' = "returned"
    /\ UNCHANGED <<center_address, geocodeCache, lookups, stages, sidebarVars>>
    /\ UNCHANGED notMain

\* load_real_price_data() names nothing the module binds: NameError, caught by
\* except Exception, st.error and return (lines 387-398); lines 400-415 never run
MainLoadRaises ==
    /\ mpc = "resolved"
    /\ center # <<>>
    /\ "load_real_price_data" \notin ModuleNames
    /\ report' = "load_error"
    /\ mpc' = "returned"
    /\ UNCHANGED <<center_address, geocodeCache, lookups, stages, sidebarVars>>
    /\ UNCHANGED notMain

\* the user changes a widget and Streamlit runs the script again
Rerun ==
    /\ mpc = "returned"
    /\ SidebarInputs
    /\ center' = <<>>
    /\ lookups' = <<>>
    /\ stages' = <<>>
    /\ report' = "none"
    /\ mpc' = "geocode"
    /\ UNCHANGED geocodeCache
    /\ UNCHANGED notMain

\* ------------------------------------------------------------------ specifications

DriveIdle ==
    /\ children = [f \in Folders |-> <<>>]
    /\ lines = [d \in {11} |-> 3]
    /\ unfetchable = {}
    /\ folders_to_search = <<>>
    /\ all_csv_files = <<>>
    /\ popCount = [f \in Folders |-> 0]
    /\ listedOk = {}
    /\ folderWarned = {}
    /\ dpc = "idle"
    /\ fileIdx = 0
    /\ df_list = <<>>
    /\ fileWarned = <<>>
    /\ final_df = <<>>

DateIdle ==
    /\ cell = NaN
    /\ parsed = NaT
    /\ ppc = "idle"

CleanIdle ==
    /\ raw_df = [cols |-> <<>>, rows |-> <<>>]
    /\ clock \in {y \in ClockYears : y - 1 \notin ClockYears}
    /\ clean1 = <<>>
    /\ clean2 = <<>>
    /\ cpc = "idle"

FilterIdle ==
    /\ fdf = <<>>
    /\ filtered = <<>>
    /\ fpc = "idle"

SidebarIdle ==
    /\ center = <<>>
    /\ radius_km = 15
    /\ transaction_type = FangWu
    /\ max_age = {30}

MainIdle ==
    /\ center_address = ""
    /\ geocodeCache = [a \in {} |-> <<>>]
    /\ lookups = <<>>
    /\ stages = <<>>
    /\ report = "none"
    /\ mpc = "idle"

\* load_data_from_drive
Init == DriveInit /\ DateIdle /\ CleanIdle /\ FilterIdle /\ SidebarIdle /\ MainIdle

Next ==
    \/ ListFolder
    \/ ListFolderRaises
    \/ ReturnNoFiles
    \/ StartMerge
    \/ ReadFile
    \/ ReadFileRaises
    \/ ConcatAndReturn

Spec == Init /\ [][Next]_vars

\* parse_roc_date
InitDate == DateInit /\ DriveIdle /\ CleanIdle /\ FilterIdle /\ SidebarIdle /\ MainIdle

NextDate == ParseCell

SpecDate == InitDate /\ [][NextDate]_vars

\* clean_real_price_data
InitClean == CleanInit /\ DriveIdle /\ DateIdle /\ FilterIdle /\ SidebarIdle /\ MainIdle

NextClean == NewYear \/ CleanOnce \/ CleanAgain

SpecClean == InitClean /\ [][NextClean]_vars

\* filter_by_distance_and_condition
InitFilter == FilterInit /\ DriveIdle /\ DateIdle /\ CleanIdle /\ MainIdle

NextFilter == FilterReturns \/ FilterRaises

SpecFilter == InitFilter /\ [][NextFilter]_vars

\* main
InitMain == MainInit /\ DriveIdle /\ DateIdle /\ CleanIdle /\ FilterIdle

NextMain ==
    \/ GeocodeCached
    \/ GeocodeFound
    \/ GeocodeFails
    \/ MainUnresolved
    \/ MainLoadRaises
    \/ Rerun

SpecMain == InitMain /\ [][NextMain]_vars

\* ------------------------------------------------------------------ load_data_from_drive: properties

AllItems == UNION {Range(children[f]) : f \in Folders}

ParentsOf(id) == {f \in Folders : \E i \in DOMAIN children[f] : children[f][i].id = id}

RECURSIVE AncestorsWithin(_, _)
AncestorsWithin(id, k) ==
    IF k = 0 THEN {}
    ELSE ParentsOf(id) \cup UNION {AncestorsWithin(f, k - 1) : f \in ParentsOf(id)}

Ancestors(id) == AncestorsWithin(id, Cardinality(Folders))

\* every node lies in one folder only and no folder lies below itself
IsTreeStore ==
    /\ \A item \in AllItems : Cardinality(ParentsOf(item.id)) = 1
    /\ \A f \in Folders : f \notin Ancestors(f)

ScanEnded == dpc = "scan" /\ folders_to_search = <<>>

LocatedIds == {all_csv_files[i].id : i \in DOMAIN all_csv_files}

\* the documents the merge loop can download and parse
Readable(id) == id \notin unfetchable /\ ~ReadCsvRaises(id)

Occurrences(seq, x) == Cardinality({i \in DOMAIN seq : seq[i] = x})

\* C1: the scan lists every folder at most once, also when the store is malformed (a
\* folder below itself or in two folders), so that the worklist runs empty.
C1_EachFolderListedAtMostOnce == \A f \in Folders : popCount[f] <= 1

\* C2: when the scan of a tree-shaped store ends, the files collected are exactly the
\* CSV documents below the root all of whose ancestor folders were listed without an
\* error, however many children a folder has.
C2_LocatedExactlyTheReachableCsv ==
    (ScanEnded /\ IsTreeStore) =>
        LocatedIds = { item.id : item \in { it \in AllItems :
                          /\ IsCsvItem(it)
                          /\ root_folder_id \in Ancestors(it.id)
                          /\ Ancestors(it.id) \subseteq listedOk } }

\* C4: the merge loop passes over every located document and returns exactly the rows
\* of the documents that could be downloaded and parsed, each as often as its
\* document was located; with no such document, or none located, the table is empty.
C4_MergedRowsAreTheReadableRows ==
    dpc = "returned" =>
        /\ Len(df_list) + Len(fileWarned) = Len(all_csv_files)
        /\ Range(fileWarned) = {id \in LocatedIds : ~Readable(id)}
        /\ Range(final_df) =
               UNION {{<<id, i>> : i \in 1..(LinesOf(id) - 2)} : id \in {d \in LocatedIds : Readable(d)}}
        /\ \A row \in Range(final_df) :
               Occurrences(final_df, row) = Occurrences(FolderIds(all_csv_files), row[1])
        /\ ({d \in LocatedIds : Readable(d)} = {} => final_df = <<>>)

\* a merge that returned rows although a document listed before a readable one failed
C4_Witness ==
    /\ dpc = "returned"
    /\ final_df # <<>>
    /\ \E i, j \in DOMAIN all_csv_files :
           /\ i < j
           /\ ~Readable(all_csv_files[i].id)
           /\ Readable(all_csv_files[j].id)
           /\ LinesOf(all_csv_files[j].id) > 2

\* ------------------------------------------------------------------ parse_roc_date: properties

TwoDigits(n) == <<DigitChars[(n \div 10) + 1], DigitChars[(n % 10) + 1]>>

\* offset year (Gregorian year - 1911), two-digit month, two-digit day
ReEncoded(d) == DecStr(d.year - 1911) \o TwoDigits(d.month) \o TwoDigits(d.day)

\* the same with the offset year written with at least three digits
ReEncodedPadded(d) ==
    LET y == DecStr(d.year - 1911)
    IN  (IF Len(y) = 1 THEN <<"0", "0">> ELSE IF Len(y) = 2 THEN <<"0">> ELSE <<>>)
            \o y \o TwoDigits(d.month) \o TwoDigits(d.day)

\* C5: a string of 6 or 7 characters that parse_roc_date decodes to a date is given
\* back by re-encoding that date as offset year, two-digit month, two-digit day.
C5_DecodeThenEncodeRoundTrips ==
    (ppc = "done" /\ ~IsNa(cell) /\ Len(PyStrip(PyStr(cell))) \in {6, 7} /\ ~parsed.nat) =>
        PyStrip(PyStr(cell)) \in {ReEncoded(parsed), ReEncodedPadded(parsed)}

\* ------------------------------------------------------------------ clean_real_price_data: properties

\* C6: two runs of clean_real_price_data on the same raw table return the same clean
\* table, whatever the wall clock shows at each run.
C6_SameTableSameResult == cpc = "twice" => clean1 = clean2

\* C9: in every row of a returned clean table the building age is a nonnegative
\* integer, and it is 0 when the row's category is land.
C9_AgeNonNegativeZeroForLand ==
    \A t \in {clean1, clean2} : \A i \in DOMAIN t :
        /\ t[i].age \in Nat
        /\ t[i].category = TuDi => t[i].age = 0

\* a returned table that keeps a land row whose completion field alone gives a
\* positive age, and a housing row whose completion year lies after the current year
C9_Witness ==
    /\ cpc = "once"
    /\ Len(clean1) = 2
    /\ {"target", "built_ym"} \subseteq Range(raw_df.cols)
    /\ \E i \in DOMAIN raw_df.rows :
           /\ categorize_property(raw_df.rows[i]["target"]) = TuDi
           /\ PyInt(PySlice(PyStr(raw_df.rows[i]["built_ym"]), 0, 3)).ok
           /\ PyInt(PySlice(PyStr(raw_df.rows[i]["built_ym"]), 0, 3)).v + 1911 < clock
    /\ \E i \in DOMAIN raw_df.rows :
           /\ categorize_property(raw_df.rows[i]["target"]) = FangWu
           /\ PyInt(PySlice(PyStr(raw_df.rows[i]["built_ym"]), 0, 3)).ok
           /\ PyInt(PySlice(PyStr(raw_df.rows[i]["built_ym"]), 0, 3)).v + 1911 > clock

\* ------------------------------------------------------------------ filter_by_distance_and_condition: properties

WithoutDistance(r) == [f \in DOMAIN r \ {"dist_km"} |-> r[f]]

SquaredDistance(c, r) ==
    (r.lat.v - c[1]) * (r.lat.v - c[1]) + (r.lon.v - c[2]) * (r.lon.v - c[2])

\* C7: every record the filter returns is a record of the clean table with both
\* coordinates present and a distance from the centre of at most the radius.
C7_ReturnedWithinRadiusWithCoordinates ==
    fpc = "returned" =>
        \A i \in DOMAIN filtered :
            /\ ~IsNa(filtered[i].lat)
            /\ ~IsNa(filtered[i].lon)
            /\ filtered[i].dist_km <= radius_km
            /\ SquaredDistance(center, filtered[i]) <= radius_km * radius_km
            /\ WithoutDistance(filtered[i]) \in Range(fdf)

\* radius 1.5 km: the record at 1.4 km is returned, the record at 1.6 km is not
C7_Witness ==
    /\ fpc = "returned"
    /\ radius_km = 15
    /\ Len(filtered) = 1
    /\ filtered[1].dist_km = 14
    /\ \E j \in DOMAIN fdf :
           /\ HasCoordinates(fdf[j])
           /\ fdf[j].category = transaction_type
           /\ SquaredDistance(center, fdf[j]) = 16 * 16

\* C8: a filter call on a clean table none of whose records has coordinates ends in
\* an outcome of its own: it returns (it does not raise), and what it returns
\* differs from what a table with coordinates but no match gives back.
C8_NoLocationDataIsDistinct ==
    (fpc \in {"returned", "raised"} /\ fdf # <<>> /\ SelectSeq(fdf, HasCoordinates) = <<>>) =>
        /\ fpc = "returned"
        /\ \A other \in CleanTables :
               LET rows == FilterRows(other, center, radius_km, transaction_type, max_age)
               IN  (SelectSeq(other, HasCoordinates) # <<>> /\ rows = <<>>) => filtered # rows

\* ------------------------------------------------------------------ main and geocode_address: properties

\* C3: geocode_address gives (None, None) only after a second lookup, made when the
\* lookup of the verbatim address found nothing or raised.
C3_FailureOnlyAfterFallback ==
    (mpc = "resolved" /\ lookups # <<>> /\ center = <<>>) =>
        /\ Len(lookups) = 2
        /\ lookups[1] = center_address

\* C10: a run of main whose address resolves goes through the stages address
\* resolver, load, clean, filter in this order before it returns.
C10_ResolvedRunReachesFilter ==
    (mpc = "returned" /\ center # <<>>) => stages = <<"geocode", "load", "clean", "filter">>

====
